---- MODULE Spec2Model ----
(***************************************************************************)
(* Monthly energy-consumption report dispatch (tdm-energy-consumption-     *)
(* report): reporting.py (telemetry query, cleaning, HTTP send, SQLite     *)
(* ledger) and reporting_task of energy_consumption_report.py.             *)
(***************************************************************************)
EXTENDS Integers, Sequences, FiniteSets, TLC

\* ------------------------------------------------------------------ bounds
\* Number of month roll-overs of the wall clock after the start date.
MaxMonths == 2
\* Longest hourly series handed to the transformer on its own.
MaxHours == 3
\* Longest hourly series the telemetry source holds during a tick.
MaxTickHours == 2
\* Number of calendar years, after the first, whose days are run through
\* the target-period computation on its own.
MaxYears == 1
\* Longest ledger handed to the check on its own.
MaxRows == 3

\* --------------------------------------------------------- program constants
\* reporting.py:79 and :89, the sensor-fault threshold.
FaultThreshold == 15000
\* energy_consumption_report.py:218, the only status that is acknowledged.
HttpOk == 200
\* energy_consumption_report.py:44, and the literal of reporting.py:186.
DefaultTable == "report_requests"
CustomTable == "custom_requests"

VARIABLES
    today,      \* date.today(): [year, month, day]
    params,     \* the configuration bag handed to every tick
    sqlite,     \* the SQLite file: table name -> sequence of <<timestamp, response>>
    lastTick,   \* what the most recent reporting_task invocation did
    series,     \* transformer on its own: the raw hourly derivative series
    frame,      \* transformer on its own: result of preprocessing
    tstate,     \* transformer on its own: "input" | "done" | "idle"
    stamp,      \* target period on its own: the timestamp computed for today
    argv,       \* parser on its own: the configuration file and command line
    args,       \* parser on its own: what configuration_parser produced
    found,      \* check on its own: what check_report_status answered
    ticks       \* scheduler on its own: parity of the invocations so far

vars == <<today, params, sqlite, lastTick, series, frame, tstate,
          stamp, argv, args, found, ticks>>

\* ------------------------------------------------------------ values
\* A possibly missing number (InfluxDB null, pandas NaN) is a set of at most
\* one integer: Null is the missing one.
Null == {}
Num(v) == {v}

\* Raw hourly derivative values: a counter reset (negative), zero, ordinary
\* loads, the last valid value, the threshold itself, a sensor fault.
Readings == {-50, 0, 100, 14999, 15000, 20000}
Powers == {Null} \cup {Num(v) : v \in Readings}

\* An hourly series of n points: hour i carries value s[i] (possibly Null).
RowsOf(s) == [i \in 1..Len(s) |-> [time |-> i, power |-> s[i]]]
SeqsUpTo(S, n) == UNION {[1..k -> S] : k \in 0..n}

Range(s) == {s[i] : i \in DOMAIN s}

RECURSIVE SumSeq(_)
SumSeq(s) == IF s = <<>> THEN 0 ELSE Head(s) + SumSeq(Tail(s))

\* ------------------------------------------------------------ calendar
IsLeap(yr) == (yr % 4 = 0 /\ yr % 100 # 0) \/ yr % 400 = 0

DaysInMonth(yr, m) ==
    IF m = 2 THEN (IF IsLeap(yr) THEN 29 ELSE 28)
    ELSE IF m \in {4, 6, 9, 11} THEN 30 ELSE 31

\* d - timedelta(days=1)
MinusOneDay(d) ==
    IF d.day > 1 THEN [d EXCEPT !.day = @ - 1]
    ELSE IF d.month > 1
         THEN [year |-> d.year, month |-> d.month - 1,
               day |-> DaysInMonth(d.year, d.month - 1)]
         ELSE [year |-> d.year - 1, month |-> 12, day |-> 31]

\* date(today.year, today.month, day=1) - timedelta(days=1)
\* Mutant: the day before the first of the month before, two months back.
PreviousMonthDate_TwoBack(d) ==
    MinusOneDay([MinusOneDay([d EXCEPT !.day = 1]) EXCEPT !.day = 1])

PreviousMonthDate(d) == MinusOneDay([d EXCEPT !.day = 1])

\* Mutant: the month formatted without its width, f'{n}'.
Pad2_Unpadded(n) == ToString(n)

\* f'{n:02d}'
Pad2(n) == IF n < 10 THEN "0" \o ToString(n) ELSE ToString(n)

\* f'{previous_month_date.year}-{previous_month_date.month:02d}'
FormatTimestamp(d) == ToString(d.year) \o "-" \o Pad2(d.month)

StartDate == [year |-> 2022, month |-> 12, day |-> 15]
MonthsElapsed(d) == (d.year - StartDate.year) * 12 + d.month - StartDate.month

\* ------------------------------------------------------------ telemetry
\* The telemetry source as a tick sees it is a record [pulse, power]: whether
\* the field "pulse" holds any sample, and the hourly derivative of MAX(pulse)
\* (one row per hour, null where the window is empty) before any filter of
\* the query.

\* get_first_timestamp: client.query(...)[measurement_name].index[0]; with no
\* sample the result has no such key and the lookup raises KeyError.
GetFirstTimestamp(tel) ==
    IF tel.pulse THEN [exc |-> "none", ts |-> 0]
    ELSE [exc |-> "KeyError", ts |-> 0]

\* NON_NEGATIVE_DERIVATIVE(...): negative derivatives are not emitted.
NonNegativeDerivative(rows) ==
    SelectSeq(rows, LAMBDA r : \A v \in r.power : v >= 0)

\* Mutant: the query without its outer WHERE clause.
WherePowerBelow_Unfiltered(rows) == rows

\* WHERE power < 15000: a null compares false and is dropped with the faults.
WherePowerBelow(rows) ==
    SelectSeq(rows, LAMBDA r : \E v \in r.power : v < FaultThreshold)

\* client.query(query)[measurement_ts]: the rows the store returns; a result
\* without rows has no key for the measurement (KeyError).
ClientQuery(tel, first_timestamp) ==
    LET inner == SelectSeq(tel.power, LAMBDA r : r.time >= first_timestamp)
        rows == WherePowerBelow(NonNegativeDerivative(inner))
    IN IF rows = <<>> THEN [exc |-> "KeyError", rows |-> <<>>]
       ELSE [exc |-> "none", rows |-> rows]

\* y[(y >= 0) & (y < 15000)]: a DataFrame indexed by a boolean DataFrame keeps
\* every row and blanks (NaN) the cells where the mask is false.
Mask(rows) ==
    [i \in DOMAIN rows |->
        [rows[i] EXCEPT !.power = {v \in @ : v >= 0 /\ v < FaultThreshold}]]

\* mean() of one hourly bin: NaN cells are skipped; an empty bin gives NaN.
HourlyMean(rows, h) ==
    LET cells == SelectSeq(rows, LAMBDA r : r.time = h /\ r.power # Null)
        nums == [i \in 1..Len(cells) |-> CHOOSE v \in cells[i].power : TRUE]
    IN IF nums = <<>> THEN Null ELSE Num(SumSeq(nums) \div Len(nums))

\* y.resample('1h').mean(): one row for every hour from the first row to the
\* last, whether or not the hour holds a row.
Resample(rows) ==
    IF rows = <<>> THEN <<>>
    ELSE LET lo == rows[1].time
             hi == rows[Len(rows)].time
         IN [k \in 1..(hi - lo + 1) |->
                [time |-> lo + k - 1, power |-> HourlyMean(rows, lo + k - 1)]]

\* y.size of a one-column frame
Size(rows) == Len(rows)

\* reporting.py:99, the smallest frame that is reported
MinSize == 2

\* preprocessing, lines 83-104: query, clean, resample, size check. exit(0)
\* raises SystemExit.
Transform(tel, first_timestamp) ==
    LET q == ClientQuery(tel, first_timestamp) IN
    IF q.exc # "none" THEN [exc |-> "SystemExit", y |-> <<>>]
    ELSE LET y == Resample(Mask(q.rows)) IN
         IF Size(y) < MinSize THEN [exc |-> "SystemExit", y |-> <<>>]
         ELSE [exc |-> "none", y |-> y]

\* preprocessing: the first-timestamp lookup lies outside the try block.
Preprocessing(tel) ==
    LET first == GetFirstTimestamp(tel) IN
    IF first.exc # "none" THEN [exc |-> first.exc, y |-> <<>>]
    ELSE Transform(tel, first.ts)

\* ------------------------------------------------------------ remote service
\* What requests.post does: a transport error, or a response with a status
\* code and a body that is or is not JSON.
HttpOutcomes ==
    {[err |-> TRUE, status_code |-> 0, json |-> FALSE]} \cup
    [err : {FALSE}, status_code : {HttpOk, 201, 500}, json : BOOLEAN]

\* sending: requests.post(url, headers=headers, data=body, verify=False)
Sending(y, http) ==
    IF http.err THEN [exc |-> "ConnectionError", status_code |-> 0]
    ELSE [exc |-> "none", status_code |-> http.status_code]

\* ------------------------------------------------------------ state store
\* What can go wrong with the SQLite file at each of the three places a tick
\* touches it.
\* Creating a table that exists fails with OperationalError whatever else
\* is wrong, so a further OperationalError is told apart only when the table
\* is missing.
CreateFaults(db, prm) ==
    IF prm.SQLITE_DB_TABLE \in DOMAIN db THEN {"none", "create_database"}
    ELSE {"none", "create_operational", "create_database"}
ReadFaults == {"none", "read"}
WriteFaults == {"none", "write_connect", "write_execute"}

\* create_sqlite_table: OperationalError (table exists, file cannot be
\* opened) is swallowed, any other sqlite3 error leaves the function.
CreateSqliteTable(db, prm, fault) ==
    LET table_name == prm.SQLITE_DB_TABLE IN
    IF fault = "create_database" THEN [exc |-> "DatabaseError", db |-> db]
    ELSE IF fault = "create_operational" \/ table_name \in DOMAIN db
         THEN [exc |-> "none", db |-> db]
         ELSE [exc |-> "none",
               db |-> [t \in DOMAIN db \cup {table_name} |->
                          IF t \in DOMAIN db THEN db[t] ELSE <<>>]]

\* Mutant: fetchone() in place of fetchall(), only the first row is looked at.
CheckReportStatus_FirstRowOnly(db, prm, date, fault) ==
    LET table_name == prm.SQLITE_DB_TABLE
        timestamp == FormatTimestamp(PreviousMonthDate(date))
    IN IF fault = "read" \/ table_name \notin DOMAIN db
       THEN [exc |-> "UnboundLocalError", received |-> FALSE,
             timestamp |-> timestamp]
       ELSE [exc |-> "none",
             received |-> /\ db[table_name] # <<>>
                          /\ db[table_name][1] = <<timestamp, HttpOk>>,
             timestamp |-> timestamp]

\* Mutant: the ledger is searched for the current month, not the previous one.
CheckReportStatus_CurrentMonth(db, prm, date, fault) ==
    LET table_name == prm.SQLITE_DB_TABLE
        timestamp == FormatTimestamp(PreviousMonthDate(date))
    IN IF fault = "read" \/ table_name \notin DOMAIN db
       THEN [exc |-> "UnboundLocalError", received |-> FALSE,
             timestamp |-> timestamp]
       ELSE [exc |-> "none",
             received |-> <<FormatTimestamp(date), HttpOk>>
                              \in Range(db[table_name]),
             timestamp |-> timestamp]

\* Mutant: the rows are filtered by timestamp only, any status counts.
CheckReportStatus_AnyStatus(db, prm, date, fault) ==
    LET table_name == prm.SQLITE_DB_TABLE
        timestamp == FormatTimestamp(PreviousMonthDate(date))
    IN IF fault = "read" \/ table_name \notin DOMAIN db
       THEN [exc |-> "UnboundLocalError", received |-> FALSE,
             timestamp |-> timestamp]
       ELSE [exc |-> "none",
             received |-> \E r \in Range(db[table_name]) : r[1] = timestamp,
             timestamp |-> timestamp]

\* check_report_status: a failed read is logged and leaves "records" unbound,
\* so the return statement raises UnboundLocalError.
CheckReportStatus(db, prm, date, fault) ==
    LET table_name == prm.SQLITE_DB_TABLE
        timestamp == FormatTimestamp(PreviousMonthDate(date))
    IN IF fault = "read" \/ table_name \notin DOMAIN db
       THEN [exc |-> "UnboundLocalError", received |-> FALSE,
             timestamp |-> timestamp]
       ELSE [exc |-> "none",
             received |-> <<timestamp, HttpOk>> \in Range(db[table_name]),
             timestamp |-> timestamp]

\* Mutant: the table is emptied before the insert (DELETE FROM, then INSERT).
UpdateSqliteDb_Replace(db, prm, timestamp, status_code, fault) ==
    IF fault = "write_connect" THEN [exc |-> "UnboundLocalError", db |-> db]
    ELSE IF fault = "write_execute" \/ DefaultTable \notin DOMAIN db
         THEN [exc |-> "none", db |-> db]
         ELSE [exc |-> "none",
               db |-> [db EXCEPT ![DefaultTable] =
                          <<(<<timestamp, status_code>>)>>]]

\* update_sqlite_db: INSERT INTO report_requests, whatever table is
\* configured. A failed connect leaves "connection" unbound and the rollback
\* in the handler raises UnboundLocalError; a failed insert is rolled back
\* and logged.
UpdateSqliteDb(db, prm, timestamp, status_code, fault) ==
    IF fault = "write_connect" THEN [exc |-> "UnboundLocalError", db |-> db]
    ELSE IF fault = "write_execute" \/ DefaultTable \notin DOMAIN db
         THEN [exc |-> "none", db |-> db]
         ELSE [exc |-> "none",
               db |-> [db EXCEPT ![DefaultTable] =
                          Append(@, <<timestamp, status_code>>)]]

\* ------------------------------------------------------------ configuration
\* energy_consumption_report.py:34, :45 and :75 (logging.INFO).
InfluxdbPort == 8086
ReportingInterval == 86400
LoggingInfo == 20

\* A Python value of the configuration: an int or a str.
IntVal(n) == [int |-> n]
StrVal(s) == [str |-> s]
IsStr(v) == DOMAIN v = {"str"}

\* v_general_config_defaults and v_specific_config_defaults.
GeneralConfigDefaults ==
    [logging_level |-> IntVal(LoggingInfo),
     influxdb_host |-> StrVal("influxdb"),
     influxdb_port |-> IntVal(InfluxdbPort),
     influxdb_database |-> StrVal("Emon"),
     influxdb_username |-> StrVal("root"),
     influxdb_password |-> StrVal("root"),
     gps_location |-> StrVal("0.0,0.0")]

SpecificConfigDefaults ==
    [measurement_ts |-> StrVal("emontx3"),
     email_address |-> StrVal("username@example.com"),
     web_server_url |-> StrVal("https://tdm-or5.jicsardegna.it/get_report"),
     sqlite_db |-> StrVal("/sqlite_db/reporting.db"),
     sqlite_db_table |-> StrVal(DefaultTable),
     reporting_interval |-> IntVal(ReportingInterval)]

\* The options that parser.add_argument declares, and those of type=int.
Arguments ==
    {"logging_level", "influxdb_host", "influxdb_port", "gps_location",
     "measurement_ts", "email_address", "web_server_url", "sqlite_db",
     "sqlite_db_table", "reporting_interval"}
IntArguments == {"logging_level", "influxdb_port", "reporting_interval"}

\* dict.update
Update(d, e) ==
    [k \in DOMAIN d \cup DOMAIN e |-> IF k \in DOMAIN e THEN e[k] ELSE d[k]]

\* ConfigParser.read_dict: every value is stored as its str().
ReadDict(d) ==
    [k \in DOMAIN d |->
        IF IsStr(d[k]) THEN d[k] ELSE StrVal(ToString(d[k].int))]

\* ConfigParser.read: the values of a section of the file, as strings, over
\* what read_dict placed there.
ConfigRead(section_defaults, section) ==
    Update(ReadDict(section_defaults),
           [k \in DOMAIN section |-> StrVal(section[k])])

\* _general_defaults: the GENERAL options listed in v_general_config_defaults.
GeneralDefaults(general) ==
    [k \in DOMAIN general \cap DOMAIN GeneralConfigDefaults |-> general[k]]

\* Mutant: the two updates in the other order, GENERAL over the specific
\* section.
ConfigDefaults_GeneralLast(given, file) ==
    LET v_config_defaults ==
            Update(GeneralConfigDefaults, SpecificConfigDefaults)
        general == ConfigRead(GeneralConfigDefaults, file.GENERAL)
        specific == ConfigRead(SpecificConfigDefaults, file.APP)
    IN IF given
       THEN Update(Update(v_config_defaults, specific),
                   GeneralDefaults(general))
       ELSE v_config_defaults

\* v_config_defaults as handed to parser.set_defaults.
ConfigDefaults(given, file) ==
    LET v_config_defaults ==
            Update(GeneralConfigDefaults, SpecificConfigDefaults)
        general == ConfigRead(GeneralConfigDefaults, file.GENERAL)
        specific == ConfigRead(SpecificConfigDefaults, file.APP)
    IN IF given
       THEN Update(Update(v_config_defaults, GeneralDefaults(general)),
                   specific)
       ELSE v_config_defaults

\* int(): the integers whose decimal text occurs in the model.
Numerals ==
    {LoggingInfo + k : k \in {0, 10, 100, 200}} \cup
    {InfluxdbPort + k : k \in {0, 10, 100, 200}} \cup
    {ReportingInterval + k : k \in {0, 10, 100, 200}}
IsNumeral(s) == \E n \in Numerals : ToString(n) = s
ParseInt(s) == CHOOSE n \in Numerals : ToString(n) = s

\* argparse _get_value: the type= callable applied to a string.
GetValue(dest, s) ==
    IF dest \in IntArguments
    THEN IF IsNumeral(s) THEN [exc |-> "none", value |-> IntVal(ParseInt(s))]
         ELSE [exc |-> "SystemExit", value |-> StrVal(s)]
    ELSE [exc |-> "none", value |-> StrVal(s)]

\* Mutant: a declared argument takes its default even when the command line
\* gives a value.
ParseArgs_DefaultWins(defaults, cli) ==
    LET got == [dest \in DOMAIN defaults |->
                   IF dest \in Arguments /\ IsStr(defaults[dest])
                   THEN GetValue(dest, defaults[dest].str)
                   ELSE [exc |-> "none", value |-> defaults[dest]]]
    IN IF \/ \E dest \in DOMAIN cli : dest \notin Arguments
          \/ \E dest \in DOMAIN got : got[dest].exc # "none"
       THEN [exc |-> "SystemExit", ns |-> <<>>]
       ELSE [exc |-> "none",
             ns |-> [dest \in DOMAIN got |-> got[dest].value]]

\* parser.parse_args: an argument on the command line is converted and
\* stored; one that is absent takes its default, converted when it is a
\* string; a default without an argument is stored as it is. An undeclared
\* argument or a failed conversion ends in parser.error, exit status 2.
ParseArgs(defaults, cli) ==
    LET got == [dest \in DOMAIN defaults |->
                   IF dest \in Arguments /\ dest \in DOMAIN cli
                   THEN GetValue(dest, cli[dest])
                   ELSE IF dest \in Arguments /\ IsStr(defaults[dest])
                   THEN GetValue(dest, defaults[dest].str)
                   ELSE [exc |-> "none", value |-> defaults[dest]]]
    IN IF \/ \E dest \in DOMAIN cli : dest \notin Arguments
          \/ \E dest \in DOMAIN got : got[dest].exc # "none"
       THEN [exc |-> "SystemExit", ns |-> <<>>]
       ELSE [exc |-> "none",
             ns |-> [dest \in DOMAIN got |-> got[dest].value]]

\* configuration_parser(p_args)
ConfigurationParser(a) ==
    ParseArgs(ConfigDefaults(a.given, a.file), a.cli)

\* Nothing parsed yet.
NoArgv == [given |-> FALSE, file |-> [GENERAL |-> <<>>, APP |-> <<>>],
           cli |-> <<>>]
NoArgs == [exc |-> "none", ns |-> <<>>]

\* ------------------------------------------------------------ the tick
\* Readings a tick draws its telemetry from: a counter reset, a valid value
\* and a sensor fault.
TickReadings == {-50, 0, 20000}
TickTelemetry ==
    {[pulse |-> FALSE, power |-> <<>>]} \cup
    {[pulse |-> TRUE, power |-> RowsOf(s)] :
        s \in SeqsUpTo({Null} \cup {Num(v) : v \in TickReadings}, MaxTickHours)}

\* The number of valid hourly points of a raw series: non-null and in
\* [0, 15000).
NValid(rows) ==
    Cardinality({i \in DOMAIN rows :
                    \E v \in rows[i].power : v >= 0 /\ v < FaultThreshold})

\* Mutant: every 2xx status is taken for an acknowledgement.
Acknowledged_AnySuccess(response) ==
    response.status_code >= 200 /\ response.status_code < 300

\* Mutant: the test turned into `if response.ok`, every status below 400.
Acknowledged_ResponseOk(response) == response.status_code < 400

\* if response.status_code == 200
Acknowledged(response) == response.status_code = HttpOk

\* response.json() inside the logging call: raises when the body is not JSON.
ResponseJson(http) == IF http.json THEN "none" ELSE "JSONDecodeError"

\* Mutant: the handler of the try block narrowed to `except ValueError`.
ExceptException_ValueError(exc) == exc = "JSONDecodeError"

\* except Exception as e: every exception but SystemExit and its like.
ExceptException(exc) == exc # "SystemExit"

\* How an exception raised inside the try block leaves it: caught and
\* logged, or raised on to the caller after the finally.
Handled(exc) ==
    IF ExceptException(exc) THEN [caught |-> exc, raised |-> "none"]
    ELSE [caught |-> "none", raised |-> exc]

\* What a tick remembers of the tick before it.
NoPrev == [outcome |-> "NONE", status_code |-> 0, writeFault |-> "none"]

\* The tick before this one, when it had the same target period.
Previous(period) ==
    IF lastTick.outcome # "NONE" /\ lastTick.period = period
    THEN [outcome |-> lastTick.outcome, status_code |-> lastTick.status_code,
          writeFault |-> lastTick.writeFault]
    ELSE NoPrev

NoTick ==
    [period |-> "", before |-> <<>>, after |-> <<>>,
     createFault |-> "none", readFault |-> "none", writeFault |-> "none",
     pulse |-> FALSE, fewValid |-> FALSE, received |-> FALSE, raised |-> "none",
     caught |-> "none", opened |-> FALSE, closed |-> FALSE, posts |-> 0,
     status_code |-> 0, json |-> FALSE, recorded |-> FALSE,
     stages |-> <<>>, outcome |-> "NONE", prev |-> NoPrev]

\* The end of a tick: the store as the tick leaves it and the record of what
\* the tick did (the fields given, the others as in NoTick).
Finish(db, did) ==
    /\ sqlite' = db
    /\ lastTick' =
         LET period == FormatTimestamp(PreviousMonthDate(today)) IN
         [period |-> period, prev |-> Previous(period),
          before |-> sqlite, after |-> db] @@ did @@ NoTick
    /\ UNCHANGED <<today, params, series, frame, tstate, stamp, argv, args,
                   found>>

\* reporting_task, one whole invocation, whoever counts the invocations.
Invocation ==
    \E cf \in CreateFaults(sqlite, params) :
    LET created == CreateSqliteTable(sqlite, params, cf) IN
    IF created.exc # "none"
    THEN Finish(created.db,
                [createFault |-> cf, raised |-> created.exc,
                 outcome |-> "STORE_ERROR"])
    ELSE
    \E rf \in ReadFaults :
    LET status == CheckReportStatus(created.db, params, today, rf) IN
    IF status.exc # "none"
    THEN Finish(created.db,
                [createFault |-> cf, readFault |-> rf, raised |-> status.exc,
                 stages |-> <<"CHECK">>, outcome |-> "STORE_ERROR"])
    ELSE IF status.received
    THEN Finish(created.db,
                [createFault |-> cf, received |-> TRUE,
                 stages |-> <<"CHECK", "ALREADY_SENT">>,
                 outcome |-> "ALREADY_SENT"])
    ELSE
    \E tel \in TickTelemetry :
    LET y == Preprocessing(tel)
        seen == [createFault |-> cf, opened |-> TRUE, pulse |-> tel.pulse,
                 fewValid |-> NValid(tel.power) < MinSize]
    IN
    IF y.exc = "KeyError"
    THEN Finish(created.db,
                [raised |-> y.exc, stages |-> <<"CHECK", "FETCH">>,
                 outcome |-> "NO_DATA"] @@ seen)
    ELSE IF y.exc # "none"
    THEN Finish(created.db,
                [raised |-> y.exc,
                 stages |-> <<"CHECK", "FETCH", "TRANSFORM">>,
                 outcome |-> "INSUFFICIENT_DATA"] @@ seen)
    ELSE
    \E http \in HttpOutcomes :
    LET response == Sending(y.y, http)
        sent == [closed |-> TRUE, posts |-> 1,
                 status_code |-> response.status_code, json |-> http.json]
                @@ seen
    IN
    IF response.exc # "none"
    THEN Finish(created.db,
                Handled(response.exc) @@
                [stages |-> <<"CHECK", "FETCH", "TRANSFORM", "SEND", "FAILED">>,
                 outcome |-> "FAILED"] @@ sent)
    ELSE IF ResponseJson(http) # "none"
    THEN Finish(created.db,
                Handled(ResponseJson(http)) @@
                [stages |-> <<"CHECK", "FETCH", "TRANSFORM", "SEND", "FAILED">>,
                 outcome |-> "FAILED"] @@ sent)
    ELSE IF Acknowledged(response)
    THEN \E wf \in WriteFaults :
         LET updated == UpdateSqliteDb(created.db, params, status.timestamp,
                                       response.status_code, wf)
         IN Finish(updated.db,
                   Handled(updated.exc) @@
                   [writeFault |-> wf, recorded |-> TRUE,
                    stages |-> <<"CHECK", "FETCH", "TRANSFORM", "SEND", "ACK">>,
                    outcome |-> "ACK"] @@ sent)
    ELSE Finish(created.db,
                [stages |-> <<"CHECK", "FETCH", "TRANSFORM", "SEND", "FAILED">>,
                 outcome |-> "FAILED"] @@ sent)

\* reporting_task as the run of the program invokes it.
ReportingTask == Invocation /\ UNCHANGED ticks

\* The wall clock reaches the next calendar month between two ticks.
AdvanceClock ==
    /\ today' =
         IF today.month = 12
         THEN [today EXCEPT !.year = @ + 1, !.month = 1]
         ELSE [today EXCEPT !.month = @ + 1]
    /\ MonthsElapsed(today') <= MaxMonths
    /\ UNCHANGED <<params, sqlite, lastTick, series, frame, tstate,
                   stamp, argv, args, found, ticks>>

\* main(): the configuration is fixed for the run; the SQLite file is new.
Init ==
    /\ today = StartDate
    /\ params \in [SQLITE_DB_TABLE : {DefaultTable, CustomTable}]
    /\ sqlite = <<>>
    /\ lastTick = NoTick
    /\ series = <<>>
    /\ frame = [exc |-> "none", y |-> <<>>]
    /\ tstate = "idle"
    /\ stamp = ""
    /\ argv = NoArgv
    /\ args = NoArgs
    /\ found = {}
    /\ ticks = 0

\* The scheduler invokes reporting_task again and again. A tick that an
\* exception left is followed by the next one all the same: lastTick.raised
\* keeps what left it, and whether the driver survives it is not decided here.
Next == ReportingTask \/ AdvanceClock

Spec == Init /\ [][Next]_vars

\* ------------------------------------------------------------ the scheduler on its own
\* The scheduler invokes reporting_task again and again and never stops;
\* the wall clock stays within one calendar month. The parity of the
\* invocations tells an invocation that leaves everything as it found it
\* from no invocation at all.
ScheduledTask == Invocation /\ ticks' = 1 - ticks

NextLive == ScheduledTask

SpecLive == Init /\ [][NextLive]_vars /\ WF_vars(ScheduledTask)

\* ------------------------------------------------------------ the transformer on its own
\* preprocessing applied once to an arbitrary raw hourly series of a source
\* that holds pulse samples.
RawSeries == {RowsOf(s) : s \in SeqsUpTo(Powers, MaxHours)}

InitTransform ==
    /\ today = StartDate
    /\ params = [SQLITE_DB_TABLE |-> DefaultTable]
    /\ sqlite = <<>>
    /\ lastTick = NoTick
    /\ series \in RawSeries
    /\ frame = [exc |-> "none", y |-> <<>>]
    /\ tstate = "input"
    /\ stamp = ""
    /\ argv = NoArgv
    /\ args = NoArgs
    /\ found = {}
    /\ ticks = 0

TransformSeries ==
    /\ tstate = "input"
    /\ frame' = Preprocessing([pulse |-> TRUE, power |-> series])
    /\ tstate' = "done"
    /\ UNCHANGED <<today, params, sqlite, lastTick, series,
                   stamp, argv, args, found, ticks>>

NextTransform == TransformSeries

SpecTransform == InitTransform /\ [][NextTransform]_vars

\* ------------------------------------------------------------ the target period on its own
\* check_report_status called once on an arbitrary day: every day of the
\* years after the start date, a leap year among them.
Dates ==
    {dt \in [year : StartDate.year + 1 .. StartDate.year + 1 + MaxYears,
             month : 1..12, day : 1..31] :
        dt.day <= DaysInMonth(dt.year, dt.month)}

InitDate ==
    /\ today \in Dates
    /\ params = [SQLITE_DB_TABLE |-> DefaultTable]
    /\ sqlite = [t \in {DefaultTable} |-> <<>>]
    /\ lastTick = NoTick
    /\ series = <<>>
    /\ frame = [exc |-> "none", y |-> <<>>]
    /\ tstate = "idle"
    /\ stamp = ""
    /\ argv = NoArgv
    /\ args = NoArgs
    /\ found = {}
    /\ ticks = 0

TargetPeriod ==
    /\ stamp = ""
    /\ stamp' = CheckReportStatus(sqlite, params, today, "none").timestamp
    /\ UNCHANGED <<today, params, sqlite, lastTick, series, frame, tstate,
                   argv, args, found, ticks>>

NextDate == TargetPeriod

SpecDate == InitDate /\ [][NextDate]_vars

\* ------------------------------------------------------------ the parser on its own
\* configuration_parser called once. The inputs follow tests/test_configs.py:
\* a value for the GENERAL section, one for the specific section and one for
\* the command line, each different from the default, written out with
\* str(). The options drawn: a general int with an argument, a general str
\* without one, a specific str and a specific int.
ModelOptions ==
    {"influxdb_port", "influxdb_database", "sqlite_db_table",
     "reporting_interval"}

BuiltIn == Update(GeneralConfigDefaults, SpecificConfigDefaults)

TestValue(dest, word, k) ==
    IF IsStr(BuiltIn[dest]) THEN StrVal(dest \o "_" \o word)
    ELSE IntVal(BuiltIn[dest].int + k)
GeneralValue(dest) == TestValue(dest, "test", 100)
SpecificValue(dest) == TestValue(dest, "override", 200)
OptionValue(dest) == TestValue(dest, "option", 10)

\* str(value), as written to the file or the command line
Text(v) == IF IsStr(v) THEN v.str ELSE ToString(v.int)

\* A section or a command line setting some of the options.
Settings(value) ==
    {[dest \in D |-> Text(value[dest])] : D \in SUBSET ModelOptions}
GeneralSections == Settings([dest \in ModelOptions |-> GeneralValue(dest)])
CommandLines == Settings([dest \in ModelOptions |-> OptionValue(dest)])

\* The specific section may also give the port a text that is no number.
WellFormedSections ==
    Settings([dest \in ModelOptions |-> SpecificValue(dest)])
SpecificSections ==
    WellFormedSections \cup
    {[sec EXCEPT !["influxdb_port"] = "not_a_number"] :
        sec \in {x \in WellFormedSections : "influxdb_port" \in DOMAIN x}}

ConfigInputs ==
    {[given |-> FALSE, file |-> NoArgv.file, cli |-> c] :
        c \in CommandLines} \cup
    {[given |-> TRUE, file |-> [GENERAL |-> g, APP |-> a], cli |-> c] :
        g \in GeneralSections, a \in SpecificSections, c \in CommandLines}

InitConfig ==
    /\ today = StartDate
    /\ params = [SQLITE_DB_TABLE |-> DefaultTable]
    /\ sqlite = <<>>
    /\ lastTick = NoTick
    /\ series = <<>>
    /\ frame = [exc |-> "none", y |-> <<>>]
    /\ tstate = "idle"
    /\ stamp = ""
    /\ argv \in ConfigInputs
    /\ args = NoArgs
    /\ found = {}
    /\ ticks = 0

ParseConfiguration ==
    /\ args = NoArgs
    /\ args' = ConfigurationParser(argv)
    /\ UNCHANGED <<today, params, sqlite, lastTick, series, frame, tstate,
                   stamp, argv, found, ticks>>

NextConfig == ParseConfiguration

SpecConfig == InitConfig /\ [][NextConfig]_vars

\* ------------------------------------------------------------ the check on its own
\* check_report_status called once on an arbitrary ledger: rows of two
\* periods, with the acknowledged status and two others, in any order and
\* number, on a day whose target is one of the two periods.
LedgerStatuses == {HttpOk, 201, 500}
LedgerDates == {StartDate, [StartDate EXCEPT !.year = @ + 1, !.month = 1]}
LedgerRows ==
    {<<FormatTimestamp(PreviousMonthDate(d)), c>> :
        d \in LedgerDates, c \in LedgerStatuses}

InitLedger ==
    /\ today \in LedgerDates
    /\ params = [SQLITE_DB_TABLE |-> DefaultTable]
    /\ sqlite \in {[t \in {DefaultTable} |-> rows] :
                     rows \in SeqsUpTo(LedgerRows, MaxRows)}
    /\ lastTick = NoTick
    /\ series = <<>>
    /\ frame = [exc |-> "none", y |-> <<>>]
    /\ tstate = "idle"
    /\ stamp = ""
    /\ argv = NoArgv
    /\ args = NoArgs
    /\ found = {}
    /\ ticks = 0

CheckLedger ==
    /\ found = {}
    /\ found' = {CheckReportStatus(sqlite, params, today, "none").received}
    /\ UNCHANGED <<today, params, sqlite, lastTick, series, frame, tstate,
                   stamp, argv, args, ticks>>

NextLedger == CheckLedger

SpecLedger == InitLedger /\ [][NextLedger]_vars

\* ------------------------------------------------------------ vocabulary of the claims
\* The rows of table t of a store, none when the table is missing.
Rows(db, t) == IF t \in DOMAIN db THEN db[t] ELSE <<>>

\* The ledger a tick consults: the configured table.
Ledger(db) == Rows(db, params.SQLITE_DB_TABLE)

TableNames == {DefaultTable, CustomTable}

\* No table of the store gained, lost or changed a row during the last tick.
RowsUntouched ==
    /\ \A t \in TableNames : Rows(lastTick.after, t) = Rows(lastTick.before, t)
    /\ sqlite = lastTick.after

\* The number of success records of period p among rows.
SuccessCount(rows, p) ==
    Cardinality({i \in DOMAIN rows : rows[i] = <<p, HttpOk>>})

\* The number of records of period p among rows, whatever their status.
RecordCount(rows, p) == Cardinality({i \in DOMAIN rows : rows[i][1] = p})

Ticked == lastTick.outcome # "NONE"

\* Tick t made a POST that was answered with a status other than 200
\* (status_code is 0 when no response arrived).
NonOkAnswer(t) == t.status_code \notin {0, HttpOk}

\* ------------------------------------------------------------ C1
\* C1: in every reachable state, every table of the store holds at most one
\* success record (response 200) for each reporting period.
C1_AtMostOneSuccessPerPeriod ==
    \A t \in DOMAIN sqlite : \A i, j \in DOMAIN sqlite[t] :
        (sqlite[t][i][1] = sqlite[t][j][1]
            /\ sqlite[t][i][2] = HttpOk /\ sqlite[t][j][2] = HttpOk) => i = j

\* Two periods have been acknowledged and a later tick found its period sent.
C1_Witness ==
    /\ \E t \in DOMAIN sqlite : Len(sqlite[t]) >= 2
    /\ lastTick.outcome = "ALREADY_SENT"

\* ------------------------------------------------------------ C2
\* C2: a tick whose target period already had a success record in the ledger
\* opened no telemetry connection, ran no fetch, transform or send, made no
\* POST, did not call update_sqlite_db and left the store as it was.
C2_ShortCircuit ==
    (Ticked /\ SuccessCount(Ledger(lastTick.before), lastTick.period) >= 1) =>
        /\ ~lastTick.opened
        /\ Range(lastTick.stages) \cap {"FETCH", "TRANSFORM", "SEND", "ACK"} = {}
        /\ lastTick.posts = 0
        /\ ~lastTick.recorded
        /\ lastTick.after = lastTick.before
        /\ sqlite = lastTick.before

C2_Witness ==
    /\ SuccessCount(Ledger(lastTick.before), lastTick.period) >= 1
    /\ lastTick.outcome = "ALREADY_SENT"
    /\ lastTick.stages = <<"CHECK", "ALREADY_SENT">>

\* ------------------------------------------------------------ C3
\* C3: when the tick before the last one had the same target period and ended
\* in ACK (200 answered, update_sqlite_db called, no storage fault in either
\* tick), the last tick ended at ALREADY_SENT with no POST and the ledger
\* holds exactly one record of that period.
C3_Idempotence ==
    (/\ lastTick.prev.outcome = "ACK"
     /\ lastTick.prev.writeFault = "none"
     /\ lastTick.createFault = "none"
     /\ lastTick.readFault = "none") =>
        /\ lastTick.outcome = "ALREADY_SENT"
        /\ lastTick.posts = 0
        /\ RecordCount(Ledger(sqlite), lastTick.period) = 1

\* ------------------------------------------------------------ C4
\* C4: a tick whose POST was answered with a status other than 200 did not
\* call update_sqlite_db and changed no row of the store; and the tick that
\* follows it for the same period does not end at ALREADY_SENT: unless the
\* store fails it opens the telemetry source again, and unless the data fail
\* it makes a POST.
C4_NonOkRetried ==
    /\ NonOkAnswer(lastTick) => (~lastTick.recorded /\ RowsUntouched)
    /\ NonOkAnswer(lastTick.prev) =>
        /\ lastTick.outcome # "ALREADY_SENT"
        /\ ~lastTick.received
        /\ (lastTick.outcome # "STORE_ERROR" => lastTick.opened)
        /\ ((lastTick.opened /\ lastTick.raised = "none") => lastTick.posts = 1)

\* A non-200 answer was followed by a tick of the same period that posted.
C4_Witness ==
    /\ NonOkAnswer(lastTick.prev)
    /\ lastTick.posts = 1
    /\ NonOkAnswer(lastTick)

\* ------------------------------------------------------------ C5
\* C5: (with the default table name) a tick that posted and was answered 200
\* called update_sqlite_db, whatever the body; and unless the write failed,
\* the ledger is the ledger before with the one row (period, 200) appended.
C5_OkRecorded ==
    (/\ params.SQLITE_DB_TABLE = DefaultTable
     /\ lastTick.posts = 1
     /\ lastTick.status_code = HttpOk) =>
        /\ lastTick.recorded
        /\ lastTick.writeFault = "none" =>
             Ledger(sqlite) = Append(Ledger(lastTick.before),
                                     <<lastTick.period, HttpOk>>)

\* ------------------------------------------------------------ C6
\* C6: (with no storage fault) every tick, whatever its outcome, returned to
\* the driver without an exception leaving reporting_task.
C6_NeverRaises ==
    (/\ Ticked
     /\ lastTick.createFault = "none"
     /\ lastTick.readFault = "none"
     /\ lastTick.writeFault = "none"
     /\ params.SQLITE_DB_TABLE = DefaultTable) =>
        lastTick.raised = "none"

\* ------------------------------------------------------------ C7
\* C7: a tick that reached the telemetry source and found fewer than 2 valid
\* hourly points failed (with SystemExit from preprocessing when the field
\* has samples), made no POST, did not call update_sqlite_db and changed no
\* row of the store.
C7_FewValidFails ==
    (lastTick.opened /\ lastTick.fewValid) =>
        /\ lastTick.raised # "none"
        /\ lastTick.pulse => (/\ lastTick.raised = "SystemExit"
                              /\ lastTick.outcome = "INSUFFICIENT_DATA")
        /\ lastTick.posts = 0
        /\ ~lastTick.recorded
        /\ RowsUntouched

C7_Witness ==
    /\ lastTick.opened /\ lastTick.fewValid /\ lastTick.pulse
    /\ lastTick.outcome = "INSUFFICIENT_DATA"
    /\ lastTick.stages = <<"CHECK", "FETCH", "TRANSFORM">>

\* ------------------------------------------------------------ C8
\* C8: a tick that found no sample of the field made no POST, changed no row
\* of the store, and no exception left reporting_task.
C8_NoDataContained ==
    lastTick.outcome = "NO_DATA" =>
        /\ lastTick.posts = 0
        /\ RowsUntouched
        /\ lastTick.raised = "none"

\* ------------------------------------------------------------ C9
\* C9: after a tick that called update_sqlite_db(period, 200) with no storage
\* fault, check_report_status of the same period returns true, and
\* check_report_status of any other period that had no record before returns
\* false.
ModelDates ==
    {[year |-> 2022 + y, month |-> m, day |-> 15] : y \in 0..1, m \in 1..12}

HasSucceeded(db, date) == CheckReportStatus(db, params, date, "none").received

C9_RecordThenHas ==
    (lastTick.recorded /\ lastTick.writeFault = "none") =>
        \A d \in ModelDates :
            IF FormatTimestamp(PreviousMonthDate(d)) = lastTick.period
            THEN HasSucceeded(sqlite, d)
            ELSE HasSucceeded(lastTick.before, d) = HasSucceeded(sqlite, d)

\* ------------------------------------------------------------ C10
\* The hourly mean of the valid raw points of hour h: the raw series has one
\* point per hour.
ValidMean(raw, h) ==
    IF h \in DOMAIN raw
    THEN {v \in raw[h].power : v >= 0 /\ v < FaultThreshold}
    ELSE Null

\* C10: every entry of the transformer's output carries a value in
\* [0, 15000), and it is the mean of the valid raw points of its hour.
C10_OutputInRange ==
    (tstate = "done" /\ frame.exc = "none") =>
        \A i \in DOMAIN frame.y :
            /\ frame.y[i].power # Null
            /\ \A v \in frame.y[i].power : v >= 0 /\ v < FaultThreshold
            /\ frame.y[i].power = ValidMean(series, frame.y[i].time)

\* ------------------------------------------------------------ C11
\* C11: the telemetry client a tick opened was closed by the time the tick
\* ended, on every exit path: acknowledgement, failed send, failed ledger
\* write, and failure of the fetch or of the transform.
C11_ClientClosed ==
    (Ticked /\ lastTick.opened) => lastTick.closed

\* ------------------------------------------------------------ C12
\* The calendar month before the month of d, written out: the twelve
\* two-digit month numbers, and December of the year before for a January.
TwoDigits ==
    <<"01", "02", "03", "04", "05", "06", "07", "08", "09", "10", "11", "12">>

MonthBefore(d) ==
    IF d.month = 1 THEN ToString(d.year - 1) \o "-" \o TwoDigits[12]
    ELSE ToString(d.year) \o "-" \o TwoDigits[d.month - 1]

\* C12: for every current date the target period computed by
\* check_report_status is the calendar month immediately before the current
\* one, as "YYYY-MM" with a zero-padded month; in January it is month 12 of
\* the year before.
C12_PreviousMonth ==
    stamp # "" => stamp = MonthBefore(today)

C12_Witness ==
    /\ today = [year |-> StartDate.year + 2, month |-> 1, day |-> 1]
    /\ stamp = "2023-12"

\* ------------------------------------------------------------ C13
\* C13: create_sqlite_table on a store whose table exists raised nothing and
\* left every row as it was; and a storage error other than "table already
\* exists" left create_sqlite_table, so that the tick ended there, before
\* the check.
C13_CreateIdempotent ==
    Ticked =>
        /\ (params.SQLITE_DB_TABLE \in DOMAIN lastTick.before) =>
              CreateSqliteTable(lastTick.before, params, "none") =
                  [exc |-> "none", db |-> lastTick.before]
        /\ lastTick.createFault # "none" =>
              /\ lastTick.raised \in {"OperationalError", "DatabaseError"}
              /\ lastTick.stages = <<>>

\* ------------------------------------------------------------ C14
\* C14: after a call of update_sqlite_db the store either holds the new
\* record after the rows it had or is exactly as before; and when the write
\* failed, the connect included, the store is as before and no exception
\* left update_sqlite_db (the error was logged there).
C14_AtomicWrite ==
    lastTick.recorded =>
        /\ \/ RowsUntouched
           \/ /\ sqlite = lastTick.after
              /\ Rows(sqlite, DefaultTable) =
                    Append(Rows(lastTick.before, DefaultTable),
                           <<lastTick.period, lastTick.status_code>>)
              /\ \A t \in TableNames \ {DefaultTable} :
                    Rows(sqlite, t) = Rows(lastTick.before, t)
        /\ lastTick.writeFault # "none" =>
              /\ RowsUntouched
              /\ lastTick.caught = "none"

\* ------------------------------------------------------------ C15
\* A tick whose POST ended in a transport error: requests.post raised, so
\* there is no status code.
TransportError(t) == t.outcome # "NONE" /\ t.posts = 1 /\ t.status_code = 0

\* C15: a tick whose POST raised a network or timeout error ended without an
\* exception leaving reporting_task, wrote no record and changed no row; and
\* the next tick of the same period (with no storage fault) did not find the
\* period delivered and, given enough valid data, made the POST again.
C15_TransportErrorRetried ==
    /\ TransportError(lastTick) =>
          /\ lastTick.raised = "none"
          /\ lastTick.outcome = "FAILED"
          /\ ~lastTick.recorded
          /\ RowsUntouched
    /\ (/\ Ticked
        /\ lastTick.prev.outcome = "FAILED" /\ lastTick.prev.status_code = 0
        /\ lastTick.createFault = "none" /\ lastTick.readFault = "none") =>
          /\ ~lastTick.received
          /\ lastTick.opened
          /\ (lastTick.pulse /\ ~lastTick.fewValid) => lastTick.posts = 1

C15_Witness ==
    /\ lastTick.prev.outcome = "FAILED" /\ lastTick.prev.status_code = 0
    /\ lastTick.posts = 1
    /\ lastTick.outcome = "ACK"

\* ------------------------------------------------------------ C16
\* The hours of a raw series that hold at least one valid point.
ValidHours(raw) == {h \in DOMAIN raw : ValidMean(raw, h) # Null}

\* C16: the transformer's output is in strictly ascending order of time, so
\* holds at most one entry per hour, and its entries are exactly the hours
\* that hold at least one valid raw point: an hour with no valid point has
\* no entry, neither a zero nor a null one.
C16_OneEntryPerValidHour ==
    (tstate = "done" /\ frame.exc = "none") =>
        /\ \A i, j \in DOMAIN frame.y :
              i < j => frame.y[i].time < frame.y[j].time
        /\ {frame.y[i].time : i \in DOMAIN frame.y} = ValidHours(series)

\* ------------------------------------------------------------ C17
\* configuration_parser returned a namespace.
Parsed == args # NoArgs /\ args.exc = "none"

\* C17: in the namespace configuration_parser returns, every option given
\* on the command line has the command-line value, and every option not
\* given there that the configuration file sets in the application section
\* has the file's value, each as a value of the option's type.
C17_CommandLineOverrides ==
    Parsed =>
        \A dest \in DOMAIN args.ns :
            /\ dest \in DOMAIN argv.cli => args.ns[dest] = OptionValue(dest)
            /\ (/\ dest \notin DOMAIN argv.cli
                /\ argv.given
                /\ dest \in DOMAIN argv.file.APP) =>
                  args.ns[dest] = SpecificValue(dest)

C17_Witness ==
    /\ Parsed /\ argv.given
    /\ DOMAIN argv.cli = {"influxdb_port"}
    /\ DOMAIN argv.file.APP = ModelOptions
    /\ args.ns["influxdb_port"] = IntVal(InfluxdbPort + 10)
    /\ args.ns["reporting_interval"] = IntVal(ReportingInterval + 200)
    /\ args.ns["sqlite_db_table"] = StrVal("sqlite_db_table_override")

\* ------------------------------------------------------------ C18
\* The value of an option that the command line does not give, when the
\* GENERAL section counts for the options of the set general.
Layered(dest, general) ==
    IF argv.given /\ dest \in DOMAIN argv.file.APP THEN SpecificValue(dest)
    ELSE IF argv.given /\ dest \in DOMAIN argv.file.GENERAL \cap general
    THEN GeneralValue(dest)
    ELSE BuiltIn[dest]

\* C18 as stated: an option without a command-line value has the value of
\* the application section if set there, else that of the GENERAL section
\* if set there, else the built-in default.
C18_SectionsThenDefault ==
    Parsed =>
        \A dest \in DOMAIN args.ns \ DOMAIN argv.cli :
            args.ns[dest] = Layered(dest, DOMAIN BuiltIn)

\* C18, amended: as above, but the GENERAL section counts only for the
\* general options (logging_level, influxdb_*, gps_location); for any other
\* option a value in GENERAL is ignored.
C18_GeneralForGeneralOptions ==
    Parsed =>
        \A dest \in DOMAIN args.ns \ DOMAIN argv.cli :
            args.ns[dest] = Layered(dest, DOMAIN GeneralConfigDefaults)

C18_Witness ==
    /\ Parsed /\ argv.given
    /\ argv.cli = <<>>
    /\ DOMAIN argv.file.GENERAL = ModelOptions
    /\ DOMAIN argv.file.APP = {"influxdb_port"}
    /\ args.ns["influxdb_port"] = IntVal(InfluxdbPort + 200)
    /\ args.ns["influxdb_database"] = StrVal("influxdb_database_test")
    /\ args.ns["sqlite_db_table"] = StrVal(DefaultTable)
    /\ args.ns["reporting_interval"] = IntVal(ReportingInterval)

\* ------------------------------------------------------------ C19
\* The stages of a tick in their order; a tick may end after any of them,
\* with ALREADY_SENT after the check or FAILED after the send.
StageOrder == <<"CHECK", "FETCH", "TRANSFORM", "SEND", "ACK">>

\* C19: the stages a tick went through are an initial part of CHECK, FETCH,
\* TRANSFORM, SEND, ACK; the telemetry source was reached only when the
\* check had found the period not delivered; a POST was made only when the
\* transform had produced a series; and update_sqlite_db was called only
\* when the POST had returned 200.
C19_StagesInOrder ==
    Ticked =>
        /\ Len(lastTick.stages) <= Len(StageOrder)
        /\ \A i \in DOMAIN lastTick.stages :
              \/ lastTick.stages[i] = StageOrder[i]
              \/ /\ i = Len(lastTick.stages)
                 /\ <<i, lastTick.stages[i]>> \in
                       {<<2, "ALREADY_SENT">>, <<5, "FAILED">>}
        /\ lastTick.opened =>
              /\ ~lastTick.received
              /\ <<lastTick.period, HttpOk>> \notin
                    Range(Ledger(lastTick.before))
        /\ lastTick.posts > 0 =>
              /\ lastTick.opened
              /\ lastTick.pulse /\ ~lastTick.fewValid
        /\ lastTick.recorded =>
              /\ lastTick.posts = 1
              /\ lastTick.status_code = HttpOk

C19_Witness ==
    /\ lastTick.stages = StageOrder
    /\ lastTick.recorded /\ lastTick.status_code = HttpOk
    /\ lastTick.writeFault = "none"
    /\ Rows(sqlite, DefaultTable) # <<>>

\* ------------------------------------------------------------ C20
\* Sequence a is an initial part of sequence b.
IsPrefix(a, b) == Len(a) <= Len(b) /\ SubSeq(b, 1, Len(a)) = a

\* C20: no step deletes a table or deletes or changes a row of the store:
\* the rows a table had are an initial part of the rows it has after the
\* step; and a period that check_report_status reports delivered before the
\* step it reports delivered after it.
C20_AppendOnly ==
    [][/\ DOMAIN sqlite \subseteq DOMAIN sqlite'
       /\ \A t \in TableNames : IsPrefix(Rows(sqlite, t), Rows(sqlite', t))
       /\ \A d \in ModelDates :
             HasSucceeded(sqlite, d) => HasSucceeded(sqlite', d)]_vars

C20_Witness ==
    /\ lastTick.recorded /\ lastTick.writeFault = "none"
    /\ Len(Rows(lastTick.before, DefaultTable)) = 1
    /\ Len(Rows(sqlite, DefaultTable)) = 2
    /\ \E d \in ModelDates :
          HasSucceeded(lastTick.before, d) /\ HasSucceeded(sqlite, d)

\* ------------------------------------------------------------ C21
\* The rows of a ledger that are exactly (p, 200), the others left out.
ExactRows(rows, p) == SelectSeq(rows, LAMBDA r : r = <<p, HttpOk>>)

\* C21: check_report_status answers true exactly when some row of the
\* ledger, wherever it stands, equals (period, 200); and it answers the same
\* on the ledger with every row of another status or another period left
\* out.
C21_ExactMembership ==
    found # {} =>
        LET p == MonthBefore(today)
            rows == Rows(sqlite, DefaultTable)
            kept == [sqlite EXCEPT ![DefaultTable] = ExactRows(rows, p)]
        IN /\ found = {\E i \in DOMAIN rows : rows[i] = <<p, HttpOk>>}
           /\ found = {HasSucceeded(kept, today)}

C21_Witness ==
    /\ found = {TRUE}
    /\ Len(Rows(sqlite, DefaultTable)) = 3
    /\ Rows(sqlite, DefaultTable)[1] = <<MonthBefore(today), 500>>
    /\ Rows(sqlite, DefaultTable)[2][1] # MonthBefore(today)
    /\ Rows(sqlite, DefaultTable)[2][2] = HttpOk
    /\ Rows(sqlite, DefaultTable)[3] = <<MonthBefore(today), HttpOk>>

\* ------------------------------------------------------------ C22
\* C22: a tick whose read of the ledger failed made no POST, changed no row
\* of the store, and no exception left reporting_task.
C22_ReadFailureContained ==
    (Ticked /\ lastTick.readFault = "read") =>
        /\ lastTick.posts = 0
        /\ ~lastTick.opened
        /\ RowsUntouched
        /\ lastTick.raised = "none"

\* ------------------------------------------------------------ C23
\* C23: whatever table name is configured, a record that update_sqlite_db
\* wrote without a storage fault is a row of the configured table, the one
\* create_sqlite_table creates and check_report_status reads; and the tick
\* after it, for the same period and without a storage fault, finds the
\* period delivered.
C23_SameTable ==
    /\ (lastTick.recorded /\ lastTick.writeFault = "none") =>
          /\ params.SQLITE_DB_TABLE \in DOMAIN sqlite
          /\ <<lastTick.period, lastTick.status_code>> \in
                Range(Ledger(sqlite))
    /\ (/\ Ticked
        /\ lastTick.prev.outcome = "ACK"
        /\ lastTick.prev.writeFault = "none"
        /\ lastTick.createFault = "none"
        /\ lastTick.readFault = "none") =>
          lastTick.received

\* ------------------------------------------------------------ C24
\* C24: (default table name, no fault in the ledger write) the tick that
\* follows, for the same period, a tick whose POST the service answered
\* with 200 makes no POST that the service answers with 200 again: the
\* service answers at most one POST of a period with 200.
C24_OneOkPostPerPeriod ==
    (/\ Ticked
     /\ params.SQLITE_DB_TABLE = DefaultTable
     /\ lastTick.prev.status_code = HttpOk
     /\ lastTick.prev.writeFault = "none") =>
        ~(lastTick.posts = 1 /\ lastTick.status_code = HttpOk)

\* ------------------------------------------------------------ C25
\* A tick under the conditions of the claim: no storage fault, a series of
\* at least 2 valid hourly points when the source was reached, status 200
\* when a POST was made, and the record in the store when update_sqlite_db
\* was called.
Favourable(t) ==
    /\ t.createFault = "none" /\ t.readFault = "none" /\ t.writeFault = "none"
    /\ t.opened => (t.pulse /\ ~t.fewValid)
    /\ t.posts = 1 => t.status_code = HttpOk
    /\ t.recorded => <<t.period, HttpOk>> \in Range(Rows(t.after, DefaultTable))

\* C25: if from some tick on every tick of the month runs under these
\* conditions, then from some tick on check_report_status reports the
\* period delivered and every tick ends at ALREADY_SENT.
C25_EventuallyDelivered ==
    <>[][Favourable(lastTick')]_vars =>
        <>[](HasSucceeded(sqlite, today) /\ lastTick.outcome = "ALREADY_SENT")

\* ------------------------------------------------------------ C26
\* C26: the wall clock never goes back; a tick targets the month before the
\* current date and no other; and a step adds no record of any other
\* period to any table. So a period that is undelivered when the month
\* rolls over is no later tick's target and never gets a record.
C26_OnlyPreviousMonth ==
    [][/\ MonthsElapsed(today') >= MonthsElapsed(today)
       /\ lastTick' # lastTick => lastTick'.period = MonthBefore(today)
       /\ \A t \in TableNames :
             \/ Rows(sqlite', t) = Rows(sqlite, t)
             \/ Rows(sqlite', t) =
                   Append(Rows(sqlite, t), <<MonthBefore(today), HttpOk>>)]_vars

\* The first period was undelivered at the roll-over; a later tick delivered
\* the next one, and the first has no record.
C26_Witness ==
    /\ MonthsElapsed(today) >= 1
    /\ lastTick.outcome = "ACK" /\ lastTick.writeFault = "none"
    /\ lastTick.period = MonthBefore(today)
    /\ Rows(sqlite, DefaultTable) = <<(<<MonthBefore(today), HttpOk>>)>>
    /\ RecordCount(Rows(sqlite, DefaultTable), MonthBefore(StartDate)) = 0

====
